---- MODULE Spec2Model ----
(***************************************************************************)
(* A model of the example HTTP servers of express-basics: the raw node     *)
(* http servers, the express page/static/json servers, the route- and      *)
(* query-params servers (basic and explained), the middleware servers      *)
(* (basic and explained) and the people/login application.                 *)
(*                                                                         *)
(* Text is a sequence of symbols (one-character strings; a fixed path      *)
(* segment such as "api" is a one-symbol text).  A JavaScript number is    *)
(* NaN or a decimal fraction kept as an integer scaled by Scale.           *)
(***************************************************************************)
EXTENDS Integers, Sequences, FiniteSets, TLC

\* ------------------------------------------------------------------ bounds
\* longest numeric-looking text sent as productId, personId or limit
MaxNumLen == 2
\* longest search term
MaxSearchLen == 2
\* most records in the products list of data.js
MaxProducts == 2
\* most records in the people list of data.js
MaxPeople == 2
\* most requests a middleware server has in hand at once
MaxInflight == 2
\* highest pfWage, in rupees, handed to computeEPFProjection
MaxWage == 16000

\* ------------------------------------------------------- JavaScript values
Max(a, b) == IF a >= b THEN a ELSE b
Min(a, b) == IF a <= b THEN a ELSE b

SeqsUpTo(S, n) == UNION {[1..k -> S] : k \in 0..n}

RECURSIVE Pow10(_)
Pow10(n) == IF n <= 0 THEN 1 ELSE 10 * Pow10(n - 1)

\* digits kept after the decimal point, and the scale of a number
FracDigits == Max(MaxNumLen, MaxSearchLen)
Scale == Pow10(FracDigits)

NaN == [nan |-> TRUE, v |-> 0]
Num(v) == [nan |-> FALSE, v |-> v]
\* the number of an integer literal of the source (3, 0, product.id)
IntNum(i) == Num(i * Scale)

\* isNaN(x) for a number x
isNaN(x) == x.nan
\* x > 0
GtZero(x) == ~x.nan /\ x.v > 0
\* x === y for numbers (NaN equals nothing, itself included)
StrictEq(x, y) == ~x.nan /\ ~y.nan /\ x.v = y.v
\* ToIntegerOrInfinity(x): NaN -> 0, otherwise truncate toward zero
ToInteger(x) ==
  IF x.nan THEN 0
  ELSE IF x.v >= 0 THEN x.v \div Scale ELSE -((-x.v) \div Scale)

Digits == {"0", "1", "2", "3", "4", "5", "6", "7", "8", "9"}
DigitVal(c) ==
  CASE c = "0" -> 0 [] c = "1" -> 1 [] c = "2" -> 2 [] c = "3" -> 3
    [] c = "4" -> 4 [] c = "5" -> 5 [] c = "6" -> 6 [] c = "7" -> 7
    [] c = "8" -> 8 [] c = "9" -> 9

IsDigits(s) == \A i \in 1..Len(s) : s[i] \in Digits

RECURSIVE DigitsVal(_)
DigitsVal(s) ==
  IF s = <<>> THEN 0
  ELSE DigitsVal(SubSeq(s, 1, Len(s) - 1)) * 10 + DigitVal(s[Len(s)])

RECURSIVE TrimLeft(_)
TrimLeft(s) == IF s # <<>> /\ s[1] = " " THEN TrimLeft(Tail(s)) ELSE s
RECURSIVE TrimRight(_)
TrimRight(s) ==
  IF s # <<>> /\ s[Len(s)] = " " THEN TrimRight(SubSeq(s, 1, Len(s) - 1)) ELSE s
Trim(s) == TrimRight(TrimLeft(s))

\* Number(text): white space is trimmed, the empty text is 0, an optionally
\* signed decimal literal (digits, digits., digits.digits, .digits) is its
\* value and anything else is NaN.  (The texts of the model hold no
\* exponent, radix prefix or "Infinity".)
StringToNumber(s) ==
  LET t == Trim(s)
      signed == t # <<>> /\ t[1] \in {"-", "+"}
      neg == t # <<>> /\ t[1] = "-"
      u == IF signed THEN Tail(t) ELSE t
      dots == {i \in 1..Len(u) : u[i] = "."}
      d == CHOOSE i \in dots : TRUE
      ip == IF dots = {} THEN u ELSE SubSeq(u, 1, d - 1)
      fp == IF dots = {} THEN <<>> ELSE SubSeq(u, d + 1, Len(u))
      mag == DigitsVal(ip) * Scale + DigitsVal(fp) * Pow10(FracDigits - Len(fp))
  IN  IF t = <<>> THEN Num(0)
      ELSE IF \/ Cardinality(dots) > 1
              \/ ~IsDigits(ip) \/ ~IsDigits(fp)
              \/ (ip = <<>> /\ fp = <<>>)
           THEN NaN
           ELSE Num(IF neg THEN -mag ELSE mag)

\* A value of req.query, req.params or req.body: undefined, a text, or an
\* array of texts (a repeated query key).
Undef == [t |-> "undef"]
Str(s) == [t |-> "str", s |-> s]
Arr(a) == [t |-> "arr", a |-> a]

\* if (x): undefined and the empty text are falsy, every array is truthy
Truthy(x) == x.t = "arr" \/ (x.t = "str" /\ x.s # <<>>)

RECURSIVE Join(_)
Join(a) ==
  IF a = <<>> THEN <<>>
  ELSE IF Len(a) = 1 THEN a[1]
  ELSE a[1] \o <<",">> \o Join(Tail(a))

\* String(x)
ToStr(x) ==
  CASE x.t = "str" -> x.s
    [] x.t = "arr" -> Join(x.a)
    [] OTHER -> <<"undefined">>

\* Number(x)
Number(x) == IF x.t = "undef" THEN NaN ELSE StringToNumber(ToStr(x))

Lower(c) ==
  CASE c = "A" -> "a" [] c = "B" -> "b" [] c = "C" -> "c" [] OTHER -> c
\* text.toLowerCase()
toLowerCase(s) == [i \in 1..Len(s) |-> Lower(s[i])]

\* hay.includes(needle)
includes(hay, needle) ==
  \E i \in 0..(Len(hay) - Len(needle)) :
    SubSeq(hay, i + 1, i + Len(needle)) = needle

\* arr.slice(0, end)
slice(arr, end) ==
  LET rel == ToInteger(end)
      fin == IF rel < 0 THEN Max(Len(arr) + rel, 0) ELSE Min(rel, Len(arr))
  IN  SubSeq(arr, 1, fin)

\* index of the first element of arr with the given id, 0 when none:
\* arr.find((x) => x.id === n) is arr[FindById(arr, n)] or undefined
FindById(arr, n) ==
  LET hits == {i \in 1..Len(arr) : StrictEq(IntNum(arr[i].id), n)}
  IN  IF hits = {} THEN 0 ELSE CHOOSE i \in hits : \A j \in hits : i <= j

\* ------------------------------------------------------------ data.js
\* data.js is not among the sources; its two lists are taken from the
\* data model: records with unique positive ids, a name and further fields.
ProductName(i) ==
  CASE i % 3 = 1 -> <<"a", "b">>
    [] i % 3 = 2 -> <<"B", "a">>
    [] OTHER -> <<"a", "A">>
Product(i) ==
  [id |-> i, name |-> ProductName(i), image |-> <<"img", i>>, price |-> 10 * i]
ProductLists == {[i \in 1..n |-> Product(i)] : n \in 1..MaxProducts}

PersonName(i) == IF i % 2 = 1 THEN <<"john">> ELSE <<"peter">>
Person(i) == [id |-> i, name |-> PersonName(i)]
PeopleLists == {[i \in 1..n |-> Person(i)] : n \in 1..MaxPeople}

\* ------------------------------------------------------------ requests
Servers ==
  {"http01", "http02", "express02", "express04", "express05", "json06",
   "paramsBasic", "paramsExplained", "mwBasic", "mwExplained", "peopleApp"}

NoQuery == [search |-> Undef, limit |-> Undef, user |-> Undef, id |-> Undef]
Obj(name) == [t |-> "obj", name |-> name]
Req(m, p, q, b) == [method |-> m, path |-> p, query |-> q, body |-> b]

\* the symbols of the numeric-looking texts, and these texts
NumChars == {"0", "1", "2", "-", ".", "a", " "}
NumTexts == SeqsUpTo(NumChars, MaxNumLen)
SearchChars == {"a", "A", "b"}
SearchTexts == SeqsUpTo(SearchChars, MaxSearchLen)

SearchVals ==
  {Undef} \cup {Str(s) : s \in SearchTexts} \cup {Arr(<<(<<"a">>), (<<"b">>)>>)}
LimitVals ==
  {Undef} \cup {Str(s) : s \in NumTexts} \cup {Arr(<<(<<"1">>), (<<"2">>)>>)}
UserVals ==
  {Undef, Str(<<>>), Str(<<"john">>), Str(<<"jane">>),
   Arr(<<(<<"john">>), (<<"jane">>)>>), Arr(<<(<<>>), (<<>>)>>)}
IdVals == {Undef, Str(<<"7">>)}
BodyVals ==
  {Undef, Obj(Undef), Obj(Str(<<>>)), Obj(Str(<<"susan">>))}

Root == <<>>
Seg(w) == <<w>>
ParamSegs == NumTexts \ {<<>>}

PagePaths ==
  {Root, <<Seg("about")>>, <<Seg("styles.css")>>, <<Seg("logo.svg")>>,
   <<Seg("browser-app.js")>>, <<Seg("nowhere")>>}

UserQueries == {[NoQuery EXCEPT !.user = u, !.id = i] : u \in UserVals, i \in IdVals}

PageRequests ==
  {Req(m, p, q, Undef) :
     m \in {"GET", "POST"}, p \in PagePaths,
     q \in {NoQuery, [NoQuery EXCEPT !.user = Str(<<"john">>)]}}

ParamsRequests ==
  {Req(m, p, NoQuery, Undef) :
     m \in {"GET", "POST"},
     p \in {Root, <<Seg("about")>>, <<Seg("api"), Seg("products")>>,
            <<Seg("api"), Seg("nowhere")>>}}
  \cup
  {Req(m, <<Seg("api"), Seg("products"), id>>, NoQuery, Undef) :
     m \in {"GET", "POST"}, id \in ParamSegs}
  \cup
  {Req("GET", <<Seg("api"), Seg("products"), id, Seg("userPreferences"),
                <<"1">>, Seg("reviews"), <<"2">>>>, NoQuery, Undef) :
     id \in {<<"1">>, <<"a">>}}
  \cup
  {Req("GET", <<Seg("api"), Seg("v1"), Seg("query")>>,
       [NoQuery EXCEPT !.search = s, !.limit = l], Undef) :
     s \in SearchVals, l \in LimitVals}

MwRequests ==
  {Req(m, p, q, Undef) :
     m \in {"GET", "POST"},
     p \in {Root, <<Seg("about")>>, <<Seg("api"), Seg("v1"), Seg("products")>>,
            <<Seg("api"), Seg("v1"), Seg("customers")>>, <<Seg("nowhere")>>},
     q \in UserQueries}

PeopleRequests ==
  {Req(m, p, NoQuery, b) :
     m \in {"GET", "POST", "PUT", "DELETE"},
     p \in {Root, <<Seg("login")>>, <<Seg("api"), Seg("people")>>,
            <<Seg("api"), Seg("people"), Seg("postman")>>, <<Seg("nowhere")>>}
          \cup {<<Seg("api"), Seg("people"), id>> : id \in ParamSegs},
     b \in BodyVals}

Requests(s) ==
  CASE s \in {"paramsBasic", "paramsExplained"} -> ParamsRequests
    [] s \in {"mwBasic", "mwExplained"} -> MwRequests
    [] s = "peopleApp" -> PeopleRequests
    [] OTHER -> PageRequests

\* req.url of the raw http servers is the path followed by the query string
HasQuery(r) == r.query # NoQuery

\* ------------------------------------------------------------- routing
\* A path pattern is a sequence of fixed segments and named parameters, or
\* the wildcard "/{*any}".  A layer is a registered handler: m is the method
\* of app.get/app.post/..., "ALL" for app.all, "USE" for app.use (which
\* matches every method and every path under its prefix) and "ERR" for a
\* four-argument error handler, which ordinary dispatch passes over.
L(w) == [k |-> "lit", s |-> Seg(w)]
P(name) == [k |-> "param", name |-> name]
AnyPath == <<[k |-> "any"]>>

Use(h) == [m |-> "USE", pat |-> <<>>, h |-> h]
Route(m, pat, h) == [m |-> m, pat |-> pat, h |-> h]
Page(m, pat, status, page) ==
  [m |-> m, pat |-> pat, h |-> "page", status |-> status, page |-> page]

SegMatch(e, seg) ==
  IF e.k = "lit" THEN seg = e.s ELSE seg # <<>>

PathMatch(pat, path) ==
  \/ pat = AnyPath
  \/ /\ pat # AnyPath
     /\ Len(pat) = Len(path)
     /\ \A i \in 1..Len(pat) : SegMatch(pat[i], path[i])

Matches(layer, r) ==
  CASE layer.m = "ERR" -> FALSE
    [] layer.m = "USE" ->
         /\ Len(layer.pat) <= Len(r.path)
         /\ \A i \in 1..Len(layer.pat) : SegMatch(layer.pat[i], r.path[i])
    [] OTHER ->
         /\ layer.m \in {"ALL", r.method}
         /\ PathMatch(layer.pat, r.path)

\* req.params[name] of a matched route
Param(pat, path, name) ==
  path[CHOOSE i \in 1..Len(pat) : pat[i].k = "param" /\ pat[i].name = name]

NotFoundPage == "Resource not found"

StackHttpBasics == <<Use("httpBasics")>>
StackHttpApp == <<Use("httpApp")>>

StackExpressApp ==
  <<Page("GET", <<>>, 200, "Home Page"),
    Page("GET", <<L("about")>>, 200, "About Page"),
    Page("ALL", AnyPath, 404, NotFoundPage)>>

StackExpress04 ==
  <<Use("static"),
    Page("GET", <<>>, 200, "navbar-app/index.html"),
    Page("ALL", AnyPath, 404, NotFoundPage)>>

StackAllStatic ==
  <<Use("static"),
    Page("ALL", AnyPath, 404, NotFoundPage)>>

StackBasicJson ==
  <<Route("GET", <<>>, "jsonProducts"),
    Page("ALL", AnyPath, 404, NotFoundPage)>>

ProductPat == <<L("api"), L("products"), P("productId")>>
ReviewPat ==
  <<L("api"), L("products"), P("productId"), L("userPreferences"),
    P("userPreferenceId"), L("reviews"), P("reviewId")>>
QueryPat == <<L("api"), L("v1"), L("query")>>

StackParamsBasic ==
  <<Page("GET", <<>>, 200, "Home page"),
    Route("GET", <<L("api"), L("products")>>, "productList"),
    Route("GET", ProductPat, "getProductBasic"),
    Page("GET", ReviewPat, 200, "Hello, we have processed all your Route Params"),
    Route("GET", QueryPat, "queryBasic"),
    Page("GET", <<L("about")>>, 200, "About page"),
    Page("ALL", AnyPath, 404, NotFoundPage)>>

StackParamsExplained ==
  <<Page("GET", <<>>, 200, "Home page"),
    Route("GET", <<L("api"), L("products")>>, "productList"),
    Route("GET", ProductPat, "getProductExplained"),
    Route("GET", ReviewPat, "reviewParams"),
    Route("GET", QueryPat, "queryExplained"),
    Page("GET", <<L("about")>>, 200, "About page"),
    Page("USE", <<>>, 404, NotFoundPage)>>

MwPages ==
  <<Page("GET", <<>>, 200, "Home Page"),
    Page("GET", <<L("about")>>, 200, "About Page"),
    Page("GET", <<L("api"), L("v1"), L("products")>>, 200, "Products Page"),
    Page("GET", <<L("api"), L("v1"), L("customers")>>, 200, "Customers Page")>>

\* app.use([authorize, logger]) in place of app.use([logger, authorize])
StackMwBasic_AuthorizeFirst == <<Use("authorize"), Use("logger")>> \o MwPages

StackMwBasic == <<Use("logger"), Use("authorize")>> \o MwPages

\* the stack without the final app.use((req, res) => res.status(404)...)
StackMwExplained_No404Handler ==
  <<Use("loggerExplained"), Use("authorizeExplained")>> \o MwPages \o
  <<[m |-> "ERR", pat |-> <<>>, h |-> "errorHandler"]>>

StackMwExplained ==
  <<Use("loggerExplained"), Use("authorizeExplained")>> \o MwPages \o
  <<[m |-> "ERR", pat |-> <<>>, h |-> "errorHandler"],
    Page("USE", <<>>, 404, "404 - Resource not found")>>

PeoplePat == <<L("api"), L("people")>>
StackPeopleApp ==
  <<Use("static"),
    Route("GET", PeoplePat, "getPeople"),
    Route("POST", PeoplePat, "createPerson"),
    Route("POST", PeoplePat \o <<L("postman")>>, "createPersonPostman"),
    Route("PUT", PeoplePat \o <<P("personId")>>, "updatePerson"),
    Route("DELETE", PeoplePat \o <<P("personId")>>, "deletePerson"),
    Route("POST", <<L("login")>>, "login")>>

Stack(s) ==
  CASE s = "http01" -> StackHttpBasics
    [] s = "http02" -> StackHttpApp
    [] s = "express02" -> StackExpressApp
    [] s = "express04" -> StackExpress04
    [] s = "express05" -> StackAllStatic
    [] s = "json06" -> StackBasicJson
    [] s = "paramsBasic" -> StackParamsBasic
    [] s = "paramsExplained" -> StackParamsExplained
    [] s = "mwBasic" -> StackMwBasic
    [] s = "mwExplained" -> StackMwExplained
    [] s = "peopleApp" -> StackPeopleApp

\* the files of the directory given to express.static (the directories are
\* not among the sources)
StaticFiles(s) ==
  CASE s = "express04" ->
         {<<Seg("styles.css")>>, <<Seg("logo.svg")>>, <<Seg("browser-app.js")>>}
    [] s = "express05" ->
         {Root, <<Seg("styles.css")>>, <<Seg("logo.svg")>>, <<Seg("browser-app.js")>>}
    [] s = "peopleApp" -> {Root}
    [] OTHER -> {}

\* the first layer at or after index from that takes the request, 0 if none
NextLayer(s, r, from) ==
  LET hits == {i \in from..Len(Stack(s)) : Matches(Stack(s)[i], r)}
  IN  IF hits = {} THEN 0 ELSE CHOOSE i \in hits : \A j \in hits : i <= j

\* ------------------------------------------------------------ handlers
\* What one invocation of a handler does: the responses it issues in order
\* (res.send / res.json / res.end), how often it calls next(), whether it
\* throws, the req.user it leaves, how many list lookups it made and the
\* list it held after its search step.
Resp(status, body) == [status |-> status, body |-> body]
Html(page) == [t |-> "html", page |-> page]

Out(sends) ==
  [sends |-> sends, nexts |-> 0, threw |-> FALSE, lookups |-> 0, searched |-> <<>>]
Send(status, body) == Out(<<Resp(status, body)>>)
Throw == [Out(<<>>) EXCEPT !.threw = TRUE]
CallNext == [Out(<<>>) EXCEPT !.nexts = 1]

\* the callback comparing the path alone, the query string set aside
httpBasics_PathOnly(r) ==
  IF r.path = Root THEN Send(200, Html("Welcome to our app home page !!"))
  ELSE IF r.path = <<Seg("about")>>
       THEN Send(200, Html("We are an awesome app, check us out !!"))
       ELSE Send(404, Html("Page not found ):"))

\* 01-http-basics.js
httpBasics(r) ==
  IF r.path = Root /\ ~HasQuery(r) THEN Send(200, Html("Welcome to our app home page !!"))
  ELSE IF r.path = <<Seg("about")>> /\ ~HasQuery(r)
       THEN Send(200, Html("We are an awesome app, check us out !!"))
       ELSE Send(404, Html("Page not found ):"))

\* 02-http-app.js
httpApp(r) ==
  IF HasQuery(r) THEN Send(404, Html("Page not found ):"))
  ELSE IF r.path = Root THEN Send(200, Html("navbar-app/index.html"))
  ELSE IF r.path = <<Seg("styles.css")>> THEN Send(200, Html("navbar-app/styles.css"))
  ELSE IF r.path = <<Seg("logo.svg")>> THEN Send(200, Html("navbar-app/logo.svg"))
  ELSE IF r.path = <<Seg("browser-app.js")>>
       THEN Send(200, Html("navbar-app/browser-app.js"))
  ELSE IF r.path = <<Seg("about")>>
       THEN Send(200, Html("We are an awesome app, check us out !!"))
       ELSE Send(404, Html("Page not found ):"))

\* express.static: a GET of an existing file is answered with the file,
\* everything else falls through to the next layer
serveStatic(files, r) ==
  IF r.method = "GET" /\ r.path \in files
  THEN Send(200, [t |-> "file", path |-> r.path])
  ELSE CallNext

\* products.map(({id, name, image}) => ({id, name, image}))
BasicInfo(prods) ==
  [i \in 1..Len(prods) |->
     [id |-> prods[i].id, name |-> prods[i].name, image |-> prods[i].image]]

productList(prods) == Send(200, [t |-> "list", data |-> BasicInfo(prods)])

jsonProducts(prods) == Send(200, [t |-> "list", data |-> prods])

\* product.id === params.productId: a number never equals a text
getProductBasic_NoConversion(prods, productId) ==
  [Send(404, Html("Product not found")) EXCEPT !.lookups = 1]

\* GET /api/products/:productId of the basic server
getProductBasic(prods, productId) ==
  LET i == FindById(prods, Number(Str(productId)))
      out == IF i = 0
             THEN Send(404, Html("Product not found"))
             ELSE Send(200, [t |-> "product", product |-> prods[i]])
  IN  [out EXCEPT !.lookups = 1]

\* the isNaN check left out: NaN matches no id
getProductExplained_NoNaNCheck(prods, productIdString) ==
  LET productIdNumber == Number(Str(productIdString))
      i == FindById(prods, productIdNumber)
  IN  IF i = 0
      THEN [Send(404, [t |-> "notFound", error |-> "Product not found",
                       searchedId |-> productIdNumber])
              EXCEPT !.lookups = 1]
      ELSE [Send(200, [t |-> "product", product |-> prods[i]])
              EXCEPT !.lookups = 1]

\* the == null check left out: undefined is sent with status 200
getProductExplained_NoNullCheck(prods, productIdString) ==
  LET productIdNumber == Number(Str(productIdString))
      i == FindById(prods, productIdNumber)
  IN  IF isNaN(productIdNumber)
      THEN Send(400, [t |-> "invalidId",
                      error |-> "Invalid product ID. Must be a number.",
                      received |-> productIdString])
      ELSE [Send(200, [t |-> "product",
                       product |-> IF i = 0 THEN Undef ELSE prods[i]])
              EXCEPT !.lookups = 1]

\* GET /api/products/:productId of the explained server
getProductExplained(prods, productIdString) ==
  LET productIdNumber == Number(Str(productIdString))
      i == FindById(prods, productIdNumber)
  IN  IF isNaN(productIdNumber)
      THEN Send(400, [t |-> "invalidId",
                      error |-> "Invalid product ID. Must be a number.",
                      received |-> productIdString])
      ELSE IF i = 0
           THEN [Send(404, [t |-> "notFound", error |-> "Product not found",
                            searchedId |-> productIdNumber])
                   EXCEPT !.lookups = 1]
           ELSE [Send(200, [t |-> "product", product |-> prods[i]])
                   EXCEPT !.lookups = 1]

reviewParams(params) ==
  Send(200, [t |-> "params",
             message |-> "Successfully processed all your route params",
             params |-> params])

\* the search step with both sides lower-cased
searchBasic_CaseInsensitive(prods, search) ==
  IF Truthy(search)
  THEN SelectSeq(prods,
                 LAMBDA product :
                   includes(toLowerCase(product.name), toLowerCase(ToStr(search))))
  ELSE prods

\* the search step of the basic query handler
searchBasic(prods, search) ==
  IF Truthy(search)
  THEN SelectSeq(prods, LAMBDA product : includes(product.name, ToStr(search)))
  ELSE prods

\* the limit step of the basic query handler
limitBasic(list, limit) ==
  IF Truthy(limit) THEN slice(list, Number(limit)) ELSE list

\* the basic query handler answering an empty result with 404
queryBasic_EmptyIs404(prods, query) ==
  LET searched == searchBasic(prods, query.search)
      searchableProducts == limitBasic(searched, query.limit)
      out == IF Len(searchableProducts) < 1
             THEN Send(404, [t |-> "searchSuccess", searchSuccess |-> TRUE,
                             data |-> <<>>])
             ELSE Send(200, [t |-> "list", data |-> searchableProducts])
  IN  [out EXCEPT !.searched = searched]

\* GET /api/v1/query of the basic server
queryBasic(prods, query) ==
  LET searched == searchBasic(prods, query.search)
      searchableProducts == limitBasic(searched, query.limit)
      out == IF Len(searchableProducts) < 1
             THEN Send(200, [t |-> "searchSuccess", searchSuccess |-> TRUE,
                             data |-> <<>>])
             ELSE Send(200, [t |-> "list", data |-> searchableProducts])
  IN  [out EXCEPT !.searched = searched]

\* the search step of the explained query handler; an array has no
\* toLowerCase, so the call throws a TypeError
SearchThrows(search) == search.t = "arr"

\* the search step without toLowerCase (the alternative of the comment)
searchExplained_CaseSensitive(prods, search) ==
  IF Truthy(search)
  THEN SelectSeq(prods, LAMBDA product : includes(product.name, search.s))
  ELSE prods

searchExplained(prods, search) ==
  IF Truthy(search)
  THEN LET searchTerm == toLowerCase(search.s)
       IN  SelectSeq(prods,
                     LAMBDA product : includes(toLowerCase(product.name), searchTerm))
  ELSE prods

\* the limit step of the explained query handler
limitExplained(list, limit) ==
  LET limitNumber == Number(limit)
  IN  IF Truthy(limit) /\ ~isNaN(limitNumber) /\ GtZero(limitNumber)
      THEN slice(list, limitNumber)
      ELSE list

\* the explained query handler with its limit step before its search step
queryExplained_LimitFirst(prods, query) ==
  IF SearchThrows(query.search) THEN Throw
  ELSE
    LET limited == limitExplained(prods, query.limit)
        searchableProducts == searchExplained(limited, query.search)
        out == IF Len(searchableProducts) < 1
               THEN Send(200, [t |-> "noMatch", success |-> TRUE,
                               message |-> "No products matched your search criteria",
                               data |-> <<>>])
               ELSE Send(200, [t |-> "matches", success |-> TRUE,
                               count |-> Len(searchableProducts),
                               data |-> searchableProducts])
    IN  [out EXCEPT !.searched = searchExplained(prods, query.search)]

\* GET /api/v1/query of the explained server
queryExplained(prods, query) ==
  IF SearchThrows(query.search) THEN Throw
  ELSE
    LET searched == searchExplained(prods, query.search)
        searchableProducts == limitExplained(searched, query.limit)
        out == IF Len(searchableProducts) < 1
               THEN Send(200, [t |-> "noMatch", success |-> TRUE,
                               message |-> "No products matched your search criteria",
                               data |-> <<>>])
               ELSE Send(200, [t |-> "matches", success |-> TRUE,
                               count |-> Len(searchableProducts),
                               data |-> searchableProducts])
    IN  [out EXCEPT !.searched = searched]

\* logger without its call of next(): it logs and returns
logger_NoNext(r) == Out(<<>>)

\* logger.js and logger-explained.js: log, then next()
logger(r) == CallNext
loggerExplained(r) == CallNext

\* authorize without its return after next(): the 401 is sent as well
authorize_NoReturn(r) ==
  LET user == r.query.user
      deny == Resp(401, Html("You are not authorized to access this resource"))
  IN  IF Truthy(user)
      THEN [user |-> [name |-> user, id |-> 3],
            out |-> [CallNext EXCEPT !.sends = <<deny>>]]
      ELSE [user |-> Undef, out |-> Send(401, deny.body)]

\* authorize taking the id of req.user from the id query parameter
authorize_IdFromQuery(r) ==
  LET user == r.query.user
      id == r.query.id
  IN  IF Truthy(user)
      THEN [user |-> [name |-> user, id |-> ToInteger(Number(id))],
            out |-> CallNext]
      ELSE [user |-> Undef,
            out |-> Send(401, Html("You are not authorized to access this resource"))]

\* authorize.js
authorize(r) ==
  LET user == r.query.user
  IN  IF Truthy(user)
      THEN [user |-> [name |-> user, id |-> 3], out |-> CallNext]
      ELSE [user |-> Undef,
            out |-> Send(401, Html("You are not authorized to access this resource"))]

\* authorize-explained without its return after next()
authorizeExplained_NoReturn(r) ==
  LET user == r.query.user
      deny == Resp(401, Html("Unauthorized Access"))
  IN  IF Truthy(user)
      THEN [user |-> [name |-> user, id |-> 3],
            out |-> [CallNext EXCEPT !.sends = <<deny>>]]
      ELSE [user |-> Undef, out |-> Send(401, deny.body)]

\* authorize-explained.js
authorizeExplained(r) ==
  LET user == r.query.user
  IN  IF Truthy(user)
      THEN [user |-> [name |-> user, id |-> 3], out |-> CallNext]
      ELSE [user |-> Undef, out |-> Send(401, Html("Unauthorized Access"))]

\* controllers/people.js
getPeople(ppl) == Send(200, [t |-> "people", success |-> TRUE, people |-> ppl])

\* const { name } = req.body throws when no body was parsed
createPerson(body) ==
  IF body.t = "undef" THEN Throw
  ELSE IF Truthy(body.name)
       THEN Send(201, [t |-> "person", success |-> TRUE, person |-> body.name])
       ELSE Send(400, [t |-> "fail", success |-> FALSE,
                       msg |-> "Please provide user name"])

\* createPersonPostman giving the new record the id people.length
createPersonPostman_IdIsLength(ppl, body) ==
  IF body.t = "undef" THEN Throw
  ELSE IF Truthy(body.name)
       THEN Send(201, [t |-> "data", success |-> TRUE,
                       data |-> Append(ppl, [name |-> body.name.s,
                                             id |-> Len(ppl)])])
       ELSE Send(400, [t |-> "failData", success |-> FALSE,
                       data |-> <<<<"Please provide a valid name">>>>])

createPersonPostman(ppl, body) ==
  IF body.t = "undef" THEN Throw
  ELSE IF Truthy(body.name)
       THEN Send(201, [t |-> "data", success |-> TRUE,
                       data |-> Append(ppl, [name |-> body.name.s,
                                             id |-> Len(ppl) + 1])])
       ELSE Send(400, [t |-> "failData", success |-> FALSE,
                       data |-> <<<<"Please provide a valid name">>>>])

\* [...people, { name, id }] is a new array: the imported people is not
\* written by createPersonPostman
peopleAfterCreate(ppl, body) == ppl

\* req.body?.name
BodyName(body) == IF body.t = "undef" THEN Undef ELSE body.name

\* updatePerson giving the new name to every person
\* (people.map((person) => ({ ...person, name })))
updatePerson_RenamesAll(ppl, personId, body) ==
  LET name == BodyName(body)
      doesPersonExist == FindById(ppl, Number(Str(personId)))
      updatedPeopleList ==
        [i \in 1..Len(ppl) |-> [ppl[i] EXCEPT !.name = name.s]]
      out == IF personId = <<>> \/ ~Truthy(name)
             THEN Send(400, [t |-> "fail", success |-> FALSE,
                             msg |-> "Please provide the id of the resource to be updated && their new name"])
             ELSE IF doesPersonExist = 0
                  THEN Send(404, [t |-> "missing", success |-> FALSE,
                                  msg |-> "No resource with the Id ${personId} found",
                                  personId |-> personId])
                  ELSE Send(200, [t |-> "data", success |-> TRUE,
                                  data |-> updatedPeopleList])
  IN  [out EXCEPT !.lookups = 1]

\* updatePerson with its existence check before its missing-field check
updatePerson_ExistenceFirst(ppl, personId, body) ==
  LET name == BodyName(body)
      doesPersonExist == FindById(ppl, Number(Str(personId)))
      updatedPeopleList ==
        [i \in 1..Len(ppl) |->
           IF StrictEq(IntNum(ppl[i].id), Number(Str(personId)))
           THEN [ppl[i] EXCEPT !.name = name.s]
           ELSE ppl[i]]
      out == IF doesPersonExist = 0
             THEN Send(404, [t |-> "missing", success |-> FALSE,
                             msg |-> "No resource with the Id ${personId} found",
                             personId |-> personId])
             ELSE IF personId = <<>> \/ ~Truthy(name)
                  THEN Send(400, [t |-> "fail", success |-> FALSE,
                                  msg |-> "Please provide the id of the resource to be updated && their new name"])
                  ELSE Send(200, [t |-> "data", success |-> TRUE,
                                  data |-> updatedPeopleList])
  IN  [out EXCEPT !.lookups = 1]

updatePerson(ppl, personId, body) ==
  LET name == BodyName(body)
      doesPersonExist == FindById(ppl, Number(Str(personId)))
      updatedPeopleList ==
        [i \in 1..Len(ppl) |->
           IF StrictEq(IntNum(ppl[i].id), Number(Str(personId)))
           THEN [ppl[i] EXCEPT !.name = name.s]
           ELSE ppl[i]]
      out == IF personId = <<>> \/ ~Truthy(name)
             THEN Send(400, [t |-> "fail", success |-> FALSE,
                             msg |-> "Please provide the id of the resource to be updated && their new name"])
             ELSE IF doesPersonExist = 0
                  THEN Send(404, [t |-> "missing", success |-> FALSE,
                                  msg |-> "No resource with the Id ${personId} found",
                                  personId |-> personId])
                  ELSE Send(200, [t |-> "data", success |-> TRUE,
                                  data |-> updatedPeopleList])
  IN  [out EXCEPT !.lookups = 1]

\* updatePerson writing the new name into the person of the imported array
\* (person.name = name)
peopleAfterUpdate_InPlace(ppl, personId, body) ==
  LET out == updatePerson(ppl, personId, body)
  IN  IF out.sends[1].status = 200 THEN out.sends[1].body.data ELSE ppl

\* people.map(...) with { ...person, name } builds a new array of new
\* objects: the imported people is not written by updatePerson
peopleAfterUpdate(ppl, personId, body) == ppl

\* deletePerson keeping its filtered array as the people list
\* (people = people.filter(...))
peopleAfterDelete_Stored(ppl, personId) ==
  SelectSeq(ppl, LAMBDA person :
                   ~StrictEq(IntNum(person.id), Number(Str(personId))))

\* people.filter(...) builds a new array: the imported people is not written
\* by deletePerson
peopleAfterDelete(ppl, personId) == ppl

\* deletePerson without its if (!doesPersonExist) branch
deletePerson_NoExistenceCheck(ppl, personId) ==
  LET updatedPeopleList ==
        SelectSeq(ppl, LAMBDA person :
                         ~StrictEq(IntNum(person.id), Number(Str(personId))))
      out == IF personId = <<>>
             THEN Send(400, [t |-> "fail", success |-> FALSE,
                             msg |-> "Please provide the id of the resource to be deleted"])
             ELSE Send(200, [t |-> "data", success |-> TRUE,
                             data |-> updatedPeopleList])
  IN  [out EXCEPT !.lookups = 1]

deletePerson(ppl, personId) ==
  LET doesPersonExist == FindById(ppl, Number(Str(personId)))
      updatedPeopleList ==
        SelectSeq(ppl, LAMBDA person :
                         ~StrictEq(IntNum(person.id), Number(Str(personId))))
      out == IF personId = <<>>
             THEN Send(400, [t |-> "fail", success |-> FALSE,
                             msg |-> "Please provide the id of the resource to be deleted"])
             ELSE IF doesPersonExist = 0
                  THEN Send(404, [t |-> "missing", success |-> FALSE,
                                  msg |-> "No resource with the Id ${personId} found",
                                  personId |-> personId])
                  ELSE Send(200, [t |-> "data", success |-> TRUE,
                                  data |-> updatedPeopleList])
  IN  [out EXCEPT !.lookups = 1]

\* routes/auth.js
login(body) ==
  IF body.t = "undef" THEN Throw
  ELSE IF Truthy(body.name)
       THEN Send(200, [t |-> "welcome", name |-> body.name])
       ELSE Send(400, Html("Please provide valid user info"))

\* ---------------------------------------------------------------- state
VARIABLES
  products,   \* the products list loaded from data.js
  people,     \* the people list loaded from data.js
  server,     \* the server the request in hand was sent to, "none" when idle
  req,        \* the request in hand
  phase,      \* "idle", "run" (a layer is due), "final" (no layer is left),
              \* "error" (a handler threw), "done" (the chain has returned)
  layer,      \* index in the server's stack of the layer that is due
  sent,       \* the responses issued for the request, in order
  ran,        \* the handlers invoked for the request, in order, each with
              \* the number of responses it issued and of its next() calls
  reqUser,    \* req.user
  lookups,    \* list lookups (find) made for the request
  searched,   \* the list held by a query handler after its search step
  inflight,   \* the requests a middleware server has in hand at once, each
              \* with its own req object (concurrent requests)
  epf         \* epf_eps_calculator.js: the arguments and the result of
              \* computeEPFProjection

vars ==
  <<products, people, server, req, phase, layer, sent, ran, reqUser, lookups,
    searched, inflight, epf>>

\* the places for requests in hand
Slots == 1..MaxInflight
\* a place for a request in hand that holds none
Free == [phase |-> "free"]
\* no request is in hand
NoneInflight == [i \in Slots |-> Free]
\* computeEPFProjection has not been called
NoEpf == [stage |-> "none"]

NoReq == Req("GET", Root, NoQuery, Undef)

Init ==
  /\ products \in ProductLists
  /\ people \in PeopleLists
  /\ server = "none"
  /\ req = NoReq
  /\ phase = "idle"
  /\ layer = 0
  /\ sent = <<>>
  /\ ran = <<>>
  /\ reqUser = Undef
  /\ lookups = 0
  /\ searched = <<>>
  /\ inflight = NoneInflight
  /\ epf = NoEpf

Cur == Stack(server)[layer]
Running(h) == phase = "run" /\ Cur.h = h

\* the request reaches the first layer that takes it
Arrive(s) ==
  /\ phase = "idle"
  /\ \E r \in Requests(s) :
       /\ server' = s
       /\ req' = r
       /\ layer' = NextLayer(s, r, 1)
       /\ phase' = IF NextLayer(s, r, 1) = 0 THEN "final" ELSE "run"
  /\ UNCHANGED <<products, people, sent, ran, reqUser, lookups, searched,
                 inflight, epf>>

Receive == \E s \in Servers : Arrive(s)

\* The effect of one invocation of handler h with outcome out: its responses
\* are issued, and control passes on (next), to the error handler (throw) or
\* back to the framework (return).
Step(h, out) ==
  /\ sent' = sent \o out.sends
  /\ ran' = Append(ran, [h |-> h, sends |-> Len(out.sends), nexts |-> out.nexts])
  /\ lookups' = lookups + out.lookups
  /\ searched' = out.searched
  /\ IF out.threw
     THEN phase' = "error" /\ layer' = layer
     ELSE IF out.nexts > 0
          THEN /\ layer' = NextLayer(server, req, layer + 1)
               /\ phase' = IF NextLayer(server, req, layer + 1) = 0
                           THEN "final" ELSE "run"
          ELSE phase' = "done" /\ layer' = layer
  /\ UNCHANGED <<products, server, req, inflight, epf>>

\* an invocation of a handler that holds no reference to the people list
Invoke(h, out) ==
  /\ Step(h, out)
  /\ UNCHANGED people

HttpBasics ==
  /\ Running("httpBasics")
  /\ Invoke("httpBasics", httpBasics(req))
  /\ UNCHANGED reqUser

HttpApp ==
  /\ Running("httpApp")
  /\ Invoke("httpApp", httpApp(req))
  /\ UNCHANGED reqUser

\* a handler that only sends a fixed page: res.status(n).send(html)
SendPage ==
  /\ Running("page")
  /\ Invoke("page", Send(Cur.status, Html(Cur.page)))
  /\ UNCHANGED reqUser

ServeStatic ==
  /\ Running("static")
  /\ Invoke("static", serveStatic(StaticFiles(server), req))
  /\ UNCHANGED reqUser

JsonProducts ==
  /\ Running("jsonProducts")
  /\ Invoke("jsonProducts", jsonProducts(products))
  /\ UNCHANGED reqUser

ProductList ==
  /\ Running("productList")
  /\ Invoke("productList", productList(products))
  /\ UNCHANGED reqUser

GetProductBasic ==
  /\ Running("getProductBasic")
  /\ Invoke("getProductBasic",
            getProductBasic(products, Param(Cur.pat, req.path, "productId")))
  /\ UNCHANGED reqUser

GetProductExplained ==
  /\ Running("getProductExplained")
  /\ Invoke("getProductExplained",
            getProductExplained(products, Param(Cur.pat, req.path, "productId")))
  /\ UNCHANGED reqUser

ReviewParams ==
  /\ Running("reviewParams")
  /\ Invoke("reviewParams",
            reviewParams([n \in {"productId", "userPreferenceId", "reviewId"} |->
                            Param(Cur.pat, req.path, n)]))
  /\ UNCHANGED reqUser

QueryBasic ==
  /\ Running("queryBasic")
  /\ Invoke("queryBasic", queryBasic(products, req.query))
  /\ UNCHANGED reqUser

QueryExplained ==
  /\ Running("queryExplained")
  /\ Invoke("queryExplained", queryExplained(products, req.query))
  /\ UNCHANGED reqUser

Logger ==
  /\ Running("logger")
  /\ Invoke("logger", logger(req))
  /\ UNCHANGED reqUser

LoggerExplained ==
  /\ Running("loggerExplained")
  /\ Invoke("loggerExplained", loggerExplained(req))
  /\ UNCHANGED reqUser

Authorize ==
  /\ Running("authorize")
  /\ Invoke("authorize", authorize(req).out)
  /\ reqUser' = authorize(req).user

AuthorizeExplained ==
  /\ Running("authorizeExplained")
  /\ Invoke("authorizeExplained", authorizeExplained(req).out)
  /\ reqUser' = authorizeExplained(req).user

GetPeople ==
  /\ Running("getPeople")
  /\ Invoke("getPeople", getPeople(people))
  /\ UNCHANGED reqUser

CreatePerson ==
  /\ Running("createPerson")
  /\ Invoke("createPerson", createPerson(req.body))
  /\ UNCHANGED reqUser

CreatePersonPostman ==
  /\ Running("createPersonPostman")
  /\ Step("createPersonPostman", createPersonPostman(people, req.body))
  /\ people' = peopleAfterCreate(people, req.body)
  /\ UNCHANGED reqUser

UpdatePerson ==
  /\ Running("updatePerson")
  /\ Step("updatePerson",
          updatePerson(people, Param(Cur.pat, req.path, "personId"), req.body))
  /\ people' = peopleAfterUpdate(people, Param(Cur.pat, req.path, "personId"),
                                  req.body)
  /\ UNCHANGED reqUser

DeletePerson ==
  /\ Running("deletePerson")
  /\ Step("deletePerson",
          deletePerson(people, Param(Cur.pat, req.path, "personId")))
  /\ people' = peopleAfterDelete(people, Param(Cur.pat, req.path, "personId"))
  /\ UNCHANGED reqUser

Login ==
  /\ Running("login")
  /\ Invoke("login", login(req.body))
  /\ UNCHANGED reqUser

\* express's last resort when no layer answered: 404
FinalHandler ==
  /\ phase = "final"
  /\ sent' = Append(sent, Resp(404, Html("Cannot reach the path")))
  /\ phase' = "done"
  /\ UNCHANGED <<products, people, server, req, layer, ran, reqUser, lookups,
                 searched, inflight, epf>>

\* express's answer to an error no error handler of the application takes
\* (no layer after the one that threw is an error handler): 500
ErrorHandler ==
  /\ phase = "error"
  /\ \A i \in (layer + 1)..Len(Stack(server)) : Stack(server)[i].m # "ERR"
  /\ sent' = Append(sent, Resp(500, Html("Internal Server Error")))
  /\ phase' = "done"
  /\ UNCHANGED <<products, people, server, req, layer, ran, reqUser, lookups,
                 searched, inflight, epf>>

\* the request is over; the server waits for the next one
Complete ==
  /\ phase = "done"
  /\ server' = "none"
  /\ req' = NoReq
  /\ phase' = "idle"
  /\ layer' = 0
  /\ sent' = <<>>
  /\ ran' = <<>>
  /\ reqUser' = Undef
  /\ lookups' = 0
  /\ searched' = <<>>
  /\ UNCHANGED <<products, people, inflight, epf>>

Next ==
  \/ Receive
  \/ HttpBasics
  \/ HttpApp
  \/ SendPage
  \/ ServeStatic
  \/ JsonProducts
  \/ ProductList
  \/ GetProductBasic
  \/ GetProductExplained
  \/ ReviewParams
  \/ QueryBasic
  \/ QueryExplained
  \/ Logger
  \/ LoggerExplained
  \/ Authorize
  \/ AuthorizeExplained
  \/ GetPeople
  \/ CreatePerson
  \/ CreatePersonPostman
  \/ UpdatePerson
  \/ DeletePerson
  \/ Login
  \/ FinalHandler
  \/ ErrorHandler
  \/ Complete

Spec == Init /\ [][Next]_vars

\* ------------------------------------- the middleware servers, with fairness
MwServers == {"mwBasic", "mwExplained"}
Loggers == {"logger", "loggerExplained"}
Authorizers == {"authorize", "authorizeExplained"}

MwReceive == \E s \in MwServers : Arrive(s)

MwNext ==
  \/ MwReceive
  \/ Logger
  \/ LoggerExplained
  \/ Authorize
  \/ AuthorizeExplained
  \/ SendPage
  \/ FinalHandler
  \/ Complete

\* express calls the layers of a request one after the other in the same
\* turn of the event loop, and no handler of these servers waits for
\* anything: a layer that is due runs. Nothing obliges a client to send a
\* request.
MwFairSpec ==
  /\ Init
  /\ [][MwNext]_vars
  /\ WF_vars(Logger) /\ WF_vars(LoggerExplained)
  /\ WF_vars(Authorize) /\ WF_vars(AuthorizeExplained)
  /\ WF_vars(SendPage) /\ WF_vars(FinalHandler)

\* --------------------------- a middleware server with several requests in hand
\* Each request in hand has its own req object: the request, the layer that
\* is due for it, req.user, the responses sent for it, and what its route
\* handler found in req.user. The layers of different requests may run in any
\* order.
single ==
  <<products, people, server, req, phase, layer, sent, ran, reqUser, lookups,
    searched>>

ConcRequests ==
  {Req("GET", p, [NoQuery EXCEPT !.user = u], Undef) :
     p \in {Root, <<Seg("nowhere")>>},
     u \in {Undef, Str(<<"john">>), Str(<<"jane">>)}}

\* the req object of a request that has just arrived
Accepted(r) ==
  [phase |-> IF NextLayer(server, r, 1) = 0 THEN "final" ELSE "run",
   req |-> r, layer |-> NextLayer(server, r, 1),
   user |-> Undef, sent |-> <<>>, seen |-> <<>>]

\* the request x after one of its handlers had the outcome out
Advance(x, out) ==
  LET after == NextLayer(server, x.req, x.layer + 1)
  IN  [x EXCEPT !.sent = @ \o out.sends,
                !.layer = IF out.nexts > 0 THEN after ELSE @,
                !.phase = IF out.nexts > 0
                          THEN IF after = 0 THEN "final" ELSE "run"
                          ELSE "done"]

\* authorize keeping the user in a variable of the module, which every
\* request in hand then shows as its req.user
attachUser_Shared(fl, i, user) ==
  [j \in Slots |->
     IF fl[j].phase = "free" THEN fl[j] ELSE [fl[j] EXCEPT !.user = user]]

\* req.user = { name: user, id: 3 }: a property of the request's own object
attachUser(fl, i, user) == [fl EXCEPT ![i].user = user]

\* the layer due for the request at place i is one of the handlers hs
Due(i, hs) ==
  /\ inflight[i].phase = "run"
  /\ Stack(server)[inflight[i].layer].h \in hs

ConcInit ==
  /\ products = <<Product(1)>>
  /\ people = <<Person(1)>>
  /\ server \in MwServers
  /\ req = NoReq
  /\ phase = "idle"
  /\ layer = 0
  /\ sent = <<>>
  /\ ran = <<>>
  /\ reqUser = Undef
  /\ lookups = 0
  /\ searched = <<>>
  /\ inflight = NoneInflight
  /\ epf = NoEpf

ConcReceive ==
  /\ \E i \in Slots : \E r \in ConcRequests :
       /\ inflight[i].phase = "free"
       /\ inflight' = [inflight EXCEPT ![i] = Accepted(r)]
  /\ UNCHANGED <<single, epf>>

ConcLogger ==
  /\ \E i \in Slots :
       /\ Due(i, Loggers)
       /\ inflight' =
            [inflight EXCEPT
               ![i] = Advance(@, IF Stack(server)[@.layer].h = "logger"
                                 THEN logger(@.req)
                                 ELSE loggerExplained(@.req))]
  /\ UNCHANGED <<single, epf>>

ConcAuthorize ==
  /\ \E i \in Slots :
       /\ Due(i, Authorizers)
       /\ LET x == inflight[i]
              a == IF Stack(server)[x.layer].h = "authorize"
                   THEN authorize(x.req)
                   ELSE authorizeExplained(x.req)
              moved == [inflight EXCEPT ![i] = Advance(x, a.out)]
          IN  inflight' = IF a.out.nexts > 0
                          THEN attachUser(moved, i, a.user)
                          ELSE moved
  /\ UNCHANGED <<single, epf>>

\* a route handler (or the 404 handler): it has req of its own request
ConcHandler ==
  /\ \E i \in Slots :
       /\ Due(i, {"page"})
       /\ LET x == inflight[i]
              due == Stack(server)[x.layer]
          IN  inflight' =
                [inflight EXCEPT
                   ![i] = [Advance(x, Send(due.status, Html(due.page)))
                             EXCEPT !.seen = Append(@, x.user)]]
  /\ UNCHANGED <<single, epf>>

ConcFinal ==
  /\ \E i \in Slots :
       /\ inflight[i].phase = "final"
       /\ inflight' =
            [inflight EXCEPT
               ![i].sent = Append(@, Resp(404, Html("Cannot reach the path"))),
               ![i].phase = "done"]
  /\ UNCHANGED <<single, epf>>

ConcComplete ==
  /\ \E i \in Slots :
       /\ inflight[i].phase = "done"
       /\ inflight' = [inflight EXCEPT ![i] = Free]
  /\ UNCHANGED <<single, epf>>

ConcNext ==
  \/ ConcReceive
  \/ ConcLogger
  \/ ConcAuthorize
  \/ ConcHandler
  \/ ConcFinal
  \/ ConcComplete

ConcSpec == ConcInit /\ [][ConcNext]_vars

\* ------------------------------------------------- epf_eps_calculator.js
\* Amounts of money are whole numbers of 1/Unit rupee, so that a percentage
\* with two decimals of a wage in whole rupees is exact (the rounding of
\* binary floating point is left aside). The projection of the balance over
\* the months, which takes no part in the monthly shares, is left out.
Unit == 10000
employerPct == 12
\* 8.33, in hundredths of a percent
epsPct == 833
epsCapWage == 15000

\* (pct / 100) * wage, pct given in hundredths of a percent
PctOf(pct100, wage) == pct100 * wage

\* Math.round(x): the nearest integer, a half rounded up
MathRound(x) == (x + Unit \div 2) \div Unit

\* computeEPFProjection with the EPS share taken on the whole wage
computeEPFProjection_NoCap(args) ==
  LET employeeEPFMonthly == PctOf(args.employeePct * 100, args.pfWage)
      vpfMonthly == PctOf(args.vpfPct * 100, args.pfWage)
      employerEPSMonthly == PctOf(epsPct, args.pfWage)
      employerEPFMonthly ==
        PctOf(employerPct * 100, args.pfWage) - employerEPSMonthly
  IN  [employerEPSMonthly |-> employerEPSMonthly,
       employerEPFMonthly |-> employerEPFMonthly,
       monthlyContribBreakdown |->
         [employeeEPFMonthly |-> MathRound(employeeEPFMonthly),
          vpfMonthly |-> MathRound(vpfMonthly),
          employerEPFMonthly |-> MathRound(employerEPFMonthly),
          employerEPSMonthly |-> MathRound(employerEPSMonthly)]]

\* the monthly contributions of computeEPFProjection: the two employer
\* shares as computed, and the rounded breakdown it returns
computeEPFProjection(args) ==
  LET employeeEPFMonthly == PctOf(args.employeePct * 100, args.pfWage)
      vpfMonthly == PctOf(args.vpfPct * 100, args.pfWage)
      employerEPSMonthly == PctOf(epsPct, Min(args.pfWage, epsCapWage))
      employerEPFMonthly ==
        PctOf(employerPct * 100, args.pfWage) - employerEPSMonthly
  IN  [employerEPSMonthly |-> employerEPSMonthly,
       employerEPFMonthly |-> employerEPFMonthly,
       monthlyContribBreakdown |->
         [employeeEPFMonthly |-> MathRound(employeeEPFMonthly),
          vpfMonthly |-> MathRound(vpfMonthly),
          employerEPFMonthly |-> MathRound(employerEPFMonthly),
          employerEPSMonthly |-> MathRound(employerEPSMonthly)]]

\* --pfWage, --employeePct, --vpfPct
EpfArgs ==
  [pfWage : 0..MaxWage, employeePct : {12}, vpfPct : {0, 10}]

EpfInit ==
  /\ products = <<Product(1)>>
  /\ people = <<Person(1)>>
  /\ server = "none"
  /\ req = NoReq
  /\ phase = "idle"
  /\ layer = 0
  /\ sent = <<>>
  /\ ran = <<>>
  /\ reqUser = Undef
  /\ lookups = 0
  /\ searched = <<>>
  /\ inflight = NoneInflight
  /\ \E args \in EpfArgs : epf = [stage |-> "args", args |-> args]

ComputeEPFProjection ==
  /\ epf.stage = "args"
  /\ epf' = [stage |-> "result", args |-> epf.args,
             result |-> computeEPFProjection(epf.args)]
  /\ UNCHANGED <<single, inflight>>

EpfNext == ComputeEPFProjection

EpfSpec == EpfInit /\ [][EpfNext]_vars

\* ------------------------------------------------------------ properties
\* The chain has returned for a request of method m to server s.
Over(s, m) == server = s /\ phase = "done" /\ req.method = m

\* the request is GET /api/products/:productId and has been dealt with
ProductRequest(s) ==
  /\ Over(s, "GET")
  /\ Len(req.path) = 3
  /\ req.path[1] = Seg("api") /\ req.path[2] = Seg("products")
  /\ req.path[3] # <<>>
ProductId == req.path[3]

\* the request is GET /api/v1/query and has been dealt with
QueryRequest(s) ==
  /\ Over(s, "GET")
  /\ req.path = <<Seg("api"), Seg("v1"), Seg("query")>>

\* two texts that differ at most in the case of their letters
SameLetter(c, d) ==
  \/ c = d
  \/ {c, d} \in {{"a", "A"}, {"b", "B"}, {"c", "C"}}
SameUpToCase(a, b) ==
  Len(a) = Len(b) /\ \A i \in 1..Len(a) : SameLetter(a[i], b[i])

InList(list, e) == \E j \in 1..Len(list) : list[j] = e

\* C1: in the explained server, GET /api/products/:productId with a productId
\* whose Number is NaN is answered by exactly one response, of status 400 with
\* the error message and the received text, and no product lookup is made.
C1_InvalidIdIs400 ==
  (ProductRequest("paramsExplained") /\ isNaN(Number(Str(ProductId))))
    => /\ sent = <<Resp(400, [t |-> "invalidId",
                              error |-> "Invalid product ID. Must be a number.",
                              received |-> ProductId])>>
       /\ lookups = 0

C1_Witness ==
  /\ ProductRequest("paramsExplained")
  /\ ProductId = <<"a">>
  /\ Len(sent) = 1 /\ sent[1].status = 400

\* C2: in the explained server, GET /api/products/:productId with a productId
\* that converts to a number no product has as id is answered by one response,
\* of status 404 with the error and searchedId, never 400 or 200.
C2_UnknownIdIs404 ==
  (/\ ProductRequest("paramsExplained")
   /\ ~isNaN(Number(Str(ProductId)))
   /\ \A i \in 1..Len(products) :
        ~StrictEq(IntNum(products[i].id), Number(Str(ProductId))))
    => /\ sent = <<Resp(404, [t |-> "notFound", error |-> "Product not found",
                              searchedId |-> Number(Str(ProductId))])>>
       /\ \A k \in 1..Len(sent) : sent[k].status \notin {400, 200}

C2_Witness ==
  /\ ProductRequest("paramsExplained")
  /\ ProductId = <<"0">>
  /\ Len(sent) = 1 /\ sent[1].status = 404

\* C3: in the basic and in the explained server, GET /api/products/:productId
\* with a productId whose number equals the id of a product is answered by
\* one response, of status 200 with exactly that product's record.
C3_KnownIdIsProduct ==
  \A s \in {"paramsBasic", "paramsExplained"} :
    \A i \in 1..Len(products) :
      (ProductRequest(s) /\ StrictEq(IntNum(products[i].id), Number(Str(ProductId))))
        => sent = <<Resp(200, [t |-> "product", product |-> products[i]])>>

C3_Witness ==
  /\ ProductRequest("paramsBasic")
  /\ Len(products) = MaxProducts
  /\ ProductId = <<"2">>
  /\ sent = <<Resp(200, [t |-> "product", product |-> products[2]])>>

\* C4 (as claimed): in the basic server, GET /api/products/:productId with a
\* productId that is not a number is answered with status 400.
C4_BasicInvalidIdIs400 ==
  (ProductRequest("paramsBasic") /\ isNaN(Number(Str(ProductId))))
    => (Len(sent) = 1 /\ sent[1].status = 400)

\* C5: in the explained server the search of GET /api/v1/query keeps a
\* product iff its lower-cased name contains the lower-cased search term, and
\* a request whose search term differs only in letter case (same limit) gets
\* the identical response.
C5_SearchIgnoresCase ==
  (QueryRequest("paramsExplained") /\ req.query.search.t = "str")
    => /\ \A i \in 1..Len(products) :
            InList(searched, products[i])
              <=> includes(toLowerCase(products[i].name),
                           toLowerCase(req.query.search.s))
       /\ \A other \in SearchTexts :
            SameUpToCase(other, req.query.search.s)
              => sent = queryExplained(products,
                                       [req.query EXCEPT !.search = Str(other)]).sends

C5_Witness ==
  /\ QueryRequest("paramsExplained")
  /\ req.query.search = Str(<<"A", "b">>)
  /\ InList(searched, products[1])
  /\ Len(sent) = 1 /\ sent[1].body.t = "matches"

\* C6: in the basic server the search of GET /api/v1/query keeps a product iff
\* its name contains the search term with identical letter case; a term that
\* differs from a product's name only in case does not match that product.
C6_BasicSearchIsCaseSensitive ==
  (QueryRequest("paramsBasic") /\ req.query.search.t = "str")
    => \A i \in 1..Len(products) :
         /\ InList(searched, products[i])
              <=> \E k \in 0..(Len(products[i].name) - Len(req.query.search.s)) :
                    \A j \in 1..Len(req.query.search.s) :
                      products[i].name[k + j] = req.query.search.s[j]
         /\ (/\ SameUpToCase(req.query.search.s, products[i].name)
             /\ req.query.search.s # products[i].name)
              => ~InList(searched, products[i])

C6_Witness ==
  /\ QueryRequest("paramsBasic")
  /\ req.query.search = Str(<<"A", "b">>)
  /\ SameUpToCase(req.query.search.s, products[1].name)
  /\ ~InList(searched, products[1])

\* a limit that is negative or not a number
BadLimit(limit) ==
  limit # Undef /\ (isNaN(Number(limit)) \/ Number(limit).v < 0)

\* C7 (as claimed): in the explained server, a negative or non-numeric limit
\* is ignored: the response has status 200 and is the response to the same
\* request without limit.
C7_BadLimitIgnored ==
  (QueryRequest("paramsExplained") /\ BadLimit(req.query.limit))
    => /\ Len(sent) = 1 /\ sent[1].status = 200
       /\ sent = queryExplained(products, [req.query EXCEPT !.limit = Undef]).sends

\* C8 (as claimed): in the basic server, a negative or non-numeric limit
\* leaves the response what it is for the same request without limit.
C8_BasicBadLimitIgnored ==
  (QueryRequest("paramsBasic") /\ BadLimit(req.query.limit))
    => sent = queryBasic(products, [req.query EXCEPT !.limit = Undef]).sends

\* C9: in every server, at most one response is issued for a request, on
\* every path through the middleware chain and the handlers.
C9_SingleResponse == Len(sent) <= 1

C9_Witness ==
  /\ Over("mwBasic", "GET")
  /\ Len(ran) = 3
  /\ Len(sent) = 1 /\ sent[1].status = 200

\* C10: every invocation of a custom middleware (logger, authorize, basic and
\* explained) either sends one response or calls next() once, never both and
\* never neither.
CustomMiddleware == {"logger", "loggerExplained", "authorize", "authorizeExplained"}

C10_RespondOrNext ==
  \A i \in 1..Len(ran) :
    ran[i].h \in CustomMiddleware
      => \/ ran[i].sends = 1 /\ ran[i].nexts = 0
         \/ ran[i].sends = 0 /\ ran[i].nexts = 1

C10_Witness ==
  /\ Over("mwExplained", "GET")
  /\ Len(ran) = 3
  /\ ran[1] = [h |-> "loggerExplained", sends |-> 0, nexts |-> 1]
  /\ ran[2] = [h |-> "authorizeExplained", sends |-> 0, nexts |-> 1]
  /\ Len(sent) = 1


\* the query string carries no user value other than the empty text
NoNonEmptyUser(user) ==
  \/ user.t = "undef"
  \/ user.t = "str" /\ user.s = <<>>
  \/ user.t = "arr" /\ \A i \in 1..Len(user.a) : user.a[i] = <<>>

\* C11 (as claimed): in the middleware servers a request whose query string
\* has no non-empty user value is answered by authorize with status 401;
\* authorize does not call next(), and nothing runs after it.
C11_NoUserIs401 ==
  (server \in MwServers /\ phase = "done" /\ NoNonEmptyUser(req.query.user))
    => /\ Len(sent) = 1 /\ sent[1].status = 401
       /\ Len(ran) = 2
       /\ ran[2].h \in Authorizers /\ ran[2].sends = 1 /\ ran[2].nexts = 0

\* C12: in the middleware servers, when a route handler is about to run or
\* has run, authorize has set req.user to { name: the user query value, id: 3 }
\* and has sent no response; the id is 3 whatever the id query parameter is.
C12_UserSetBeforeHandler ==
  (/\ server \in MwServers
   /\ \/ phase = "run" /\ Stack(server)[layer].h = "page"
      \/ \E i \in 1..Len(ran) : ran[i].h = "page")
    => /\ reqUser = [name |-> req.query.user, id |-> 3]
       /\ Len(ran) >= 2
       /\ ran[2].h \in Authorizers /\ ran[2].sends = 0
       /\ (phase = "run" => sent = <<>>)

C12_Witness ==
  /\ Over("mwBasic", "GET")
  /\ req.path = <<Seg("about")>>
  /\ req.query.user = Str(<<"jane">>) /\ req.query.id = Str(<<"7">>)
  /\ ran[3].h = "page"
  /\ reqUser = [name |-> Str(<<"jane">>), id |-> 3]

\* C13: in the middleware servers the handlers of a request run in the order
\* logger, authorize, route handler; the route handler runs only after
\* authorize called next(); and every request that is over, of any method and
\* path, rejected by authorize or not, has been through logger and authorize.
C13_PipelineOrder ==
  server \in MwServers
    => /\ Len(ran) <= 3
       /\ Len(ran) >= 1 => (ran[1].h \in Loggers /\ ran[1].nexts = 1)
       /\ Len(ran) >= 2 => ran[2].h \in Authorizers
       /\ Len(ran) >= 3 => (ran[2].nexts = 1 /\ ran[3].h = "page")
       /\ (phase = "run" /\ Len(ran) = 0) => Stack(server)[layer].h \in Loggers
       /\ (phase = "run" /\ Len(ran) = 1) => Stack(server)[layer].h \in Authorizers
       /\ (phase = "run" /\ Len(ran) = 2)
            => (ran[2].nexts = 1 /\ Stack(server)[layer].h = "page")
       /\ phase \in {"final", "done"} => Len(ran) >= 2

C13_Witness ==
  /\ Over("mwBasic", "POST")
  /\ req.path = <<Seg("nowhere")>>
  /\ req.query.user = Undef
  /\ Len(ran) = 2
  /\ ran[1] = [h |-> "logger", sends |-> 0, nexts |-> 1]
  /\ ran[2] = [h |-> "authorize", sends |-> 1, nexts |-> 0]
  /\ Len(sent) = 1 /\ sent[1].status = 401

\* the path of the request is none of /, /about, /api/v1/products and
\* /api/v1/customers
NoRoutePath ==
  \A i \in 1..Len(MwPages) : ~PathMatch(MwPages[i].pat, req.path)

\* C14 (as claimed): in the middleware-explained server every request whose
\* path matches none of the registered routes is answered with status 404 by
\* the not-found handler.
C14_UnmatchedIs404 ==
  (server = "mwExplained" /\ phase = "done" /\ NoRoutePath)
    => sent = <<Resp(404, Html("404 - Resource not found"))>>

\* C14 (amended): in the middleware-explained server every request whose
\* path matches none of the registered routes and whose user query value is
\* truthy (authorize calls next()) is answered with status 404 by the
\* not-found handler; with a falsy user value authorize answers it with 401
\* and the not-found handler does not run.
C14_UnmatchedIs404AfterAuthorize ==
  (server = "mwExplained" /\ phase = "done" /\ NoRoutePath)
    => IF Truthy(req.query.user)
       THEN /\ sent = <<Resp(404, Html("404 - Resource not found"))>>
            /\ Len(ran) = 3
            /\ ran[3] = [h |-> "page", sends |-> 1, nexts |-> 0]
       ELSE /\ sent = <<Resp(401, Html("Unauthorized Access"))>>
            /\ Len(ran) = 2

C14_Witness ==
  /\ Over("mwExplained", "GET")
  /\ req.path = <<Seg("nowhere")>>
  /\ req.query.user = Str(<<"john">>)
  /\ Len(ran) = 3
  /\ sent = <<Resp(404, Html("404 - Resource not found"))>>

\* C15 (as claimed): in the explained server GET /api/v1/query is answered
\* with status 200 whatever the query parameters are: missing, empty,
\* negative, non-numeric or repeated (array) search and limit values.
C15_QueryAlways200 ==
  QueryRequest("paramsExplained") => (Len(sent) = 1 /\ sent[1].status = 200)

\* the query handler h went through its filtering and answered
Filtered(h) ==
  /\ Len(ran) >= 1
  /\ ran[Len(ran)].h = h /\ ran[Len(ran)].sends = 1

\* C16: in both query servers, when the products left by search and limit
\* are none, the one response is 200 with an empty data array (explained:
\* success, message, data; basic: searchSuccess, data), never 404; when some
\* are left, the one response is 200 and carries exactly them, in the
\* explained server with count equal to their number.
C16_EmptyIs200 ==
  /\ (QueryRequest("paramsBasic") /\ Filtered("queryBasic"))
       => LET remaining == limitBasic(searched, req.query.limit)
          IN  IF remaining = <<>>
              THEN sent = <<Resp(200, [t |-> "searchSuccess",
                                       searchSuccess |-> TRUE, data |-> <<>>])>>
              ELSE sent = <<Resp(200, [t |-> "list", data |-> remaining])>>
  /\ (QueryRequest("paramsExplained") /\ Filtered("queryExplained"))
       => LET remaining == limitExplained(searched, req.query.limit)
          IN  IF remaining = <<>>
              THEN sent = <<Resp(200, [t |-> "noMatch", success |-> TRUE,
                                       message |-> "No products matched your search criteria",
                                       data |-> <<>>])>>
              ELSE sent = <<Resp(200, [t |-> "matches", success |-> TRUE,
                                       count |-> Len(remaining),
                                       data |-> remaining])>>

C16_Witness ==
  /\ QueryRequest("paramsBasic")
  /\ req.query.search = Str(<<"b", "b">>) /\ req.query.limit = Undef
  /\ searched = <<>>
  /\ sent = <<Resp(200, [t |-> "searchSuccess", searchSuccess |-> TRUE,
                         data |-> <<>>])>>

\* a limit that is the text of a positive integer
PositiveLimit(limit) ==
  /\ limit.t = "str"
  /\ ~isNaN(Number(limit))
  /\ Number(limit).v > 0 /\ Number(limit).v % Scale = 0

\* the products whose name contains the term, letter case aside, in the
\* order of the product list
Matching(term) ==
  SelectSeq(products,
            LAMBDA product : includes(toLowerCase(product.name), toLowerCase(term)))

\* the first n elements of a list, all of them when it has fewer
FirstN(list, n) == SubSeq(list, 1, Min(n, Len(list)))

\* C17: in the explained server, with a search term and a limit that is a
\* positive integer L, data is the first L of the products matching the
\* search, in list order (search first, then limit); with neither
\* parameter, data is the whole product list in its order.
C17_SearchBeforeLimit ==
  /\ (/\ QueryRequest("paramsExplained")
      /\ req.query.search.t = "str" /\ req.query.search.s # <<>>
      /\ PositiveLimit(req.query.limit))
       => /\ Len(sent) = 1 /\ sent[1].status = 200
          /\ sent[1].body.data =
               FirstN(Matching(req.query.search.s),
                      Number(req.query.limit).v \div Scale)
  /\ (/\ QueryRequest("paramsExplained")
      /\ req.query.search = Undef /\ req.query.limit = Undef)
       => /\ Len(sent) = 1 /\ sent[1].status = 200
          /\ sent[1].body.data = products

C17_Witness ==
  /\ QueryRequest("paramsExplained")
  /\ Len(products) = MaxProducts
  /\ req.query.search = Str(<<"b", "a">>)
  /\ req.query.limit = Str(<<"1">>)
  /\ sent[1].body.data = <<products[2]>>

\* C18: in the people API no request changes the imported people array:
\* create (postman), update and delete answer with a new array, and after
\* any sequence of requests people has the elements, order and field values
\* it had at the start.
C18_PeopleUntouched == [][people' = people]_vars

C18_Witness ==
  /\ Over("peopleApp", "PUT")
  /\ Len(sent) = 1 /\ sent[1].status = 200
  /\ sent[1].body.data # people
  /\ people \in PeopleLists

\* the controllers that answer with a list built from people
ListWriters == {"createPersonPostman", "updatePerson", "deletePerson"}

\* a list-building write of the people API has answered with success
WriteSucceeded ==
  /\ server = "peopleApp" /\ phase = "done"
  /\ Len(ran) >= 1 /\ ran[Len(ran)].h \in ListWriters
  /\ Len(sent) = 1 /\ sent[1].status \in {200, 201}

\* C19 (as claimed): in the people API a successful write replaces the shared
\* people array with the new array, so that a later GET /api/people returns
\* the list as changed by the write.
C19_WriteReplacesPeople ==
  WriteSucceeded => people = sent[1].body.data

\* C19 (amended): in the people API a successful write answers with the new
\* array and does not replace the shared people array: people stays the list
\* loaded at start, the array answered by a create or delete differs from
\* it, and GET /api/people, before or after any write, returns that list.
C19_WriteNotStored ==
  /\ people \in PeopleLists
  /\ (WriteSucceeded /\ ran[Len(ran)].h # "updatePerson")
       => sent[1].body.data # people
  /\ (server = "peopleApp" /\ phase = "done" /\ Len(ran) >= 1
         /\ ran[Len(ran)].h = "getPeople")
       => sent = <<Resp(200, [t |-> "people", success |-> TRUE,
                              people |-> people])>>

C19_Witness ==
  /\ WriteSucceeded
  /\ req.method = "DELETE"
  /\ Len(people) = MaxPeople
  /\ Len(sent[1].body.data) = MaxPeople - 1

\* the request body has a name that is not the empty text
HasName(body) == Truthy(BodyName(body))

\* C20 (as claimed): POST /api/people, POST /api/people/postman and
\* POST /login answer 400 when the request body has no non-empty name and
\* 201, 201 and 200 when it has one; PUT /api/people/:personId answers 400
\* when the body has no non-empty name.
C20_MissingNameIs400 ==
  /\ \A route \in {<<<<Seg("api"), Seg("people")>>, 201>>,
                    <<<<Seg("api"), Seg("people"), Seg("postman")>>, 201>>,
                    <<<<Seg("login")>>, 200>>} :
       (Over("peopleApp", "POST") /\ req.path = route[1])
         => /\ Len(sent) = 1
            /\ sent[1].status = IF HasName(req.body) THEN route[2] ELSE 400
  /\ (/\ Over("peopleApp", "PUT")
      /\ Len(req.path) = 3
      /\ req.path[1] = Seg("api") /\ req.path[2] = Seg("people")
      /\ ~HasName(req.body))
       => (Len(sent) = 1 /\ sent[1].status = 400)

\* the request is <method> /api/people/:personId and has been dealt with
PersonRequest(method) ==
  /\ Over("peopleApp", method)
  /\ Len(req.path) = 3
  /\ req.path[1] = Seg("api") /\ req.path[2] = Seg("people")
PersonId == req.path[3]

\* the people whose id equals Number(personId)
Hits(personId) ==
  {i \in 1..Len(people) : StrictEq(IntNum(people[i].id), Number(Str(personId)))}

\* C21: in the people API, PUT /api/people/:personId with a name and
\* DELETE /api/people/:personId are answered 404 when no person has an id
\* equal to Number(personId), a personId that is not numeric included, and
\* 200 when such a person exists.
C21_UnknownPersonIs404 ==
  (\/ PersonRequest("PUT") /\ HasName(req.body)
   \/ PersonRequest("DELETE"))
    => /\ Len(sent) = 1
       /\ sent[1].status = IF Hits(PersonId) = {} THEN 404 ELSE 200

C21_Witness ==
  /\ PersonRequest("DELETE")
  /\ PersonId = <<"a">>
  /\ isNaN(Number(Str(PersonId)))
  /\ Len(sent) = 1 /\ sent[1].status = 404

\* the paths the raw http server s answers with 200
HandledPaths(s) ==
  IF s = "http01" THEN {Root, <<Seg("about")>>}
  ELSE {Root, <<Seg("about")>>, <<Seg("styles.css")>>, <<Seg("logo.svg")>>,
        <<Seg("browser-app.js")>>}

\* C22: in the raw node http servers a request is answered 200 exactly when
\* its URL (path plus query string) is one of the handled paths, and with the
\* catch-all 404 otherwise; the method of the request plays no part.
C22_UrlEquality ==
  (server \in {"http01", "http02"} /\ phase = "done")
    => /\ Len(sent) = 1
       /\ IF req.path \in HandledPaths(server) /\ ~HasQuery(req)
          THEN sent[1].status = 200
          ELSE sent[1] = Resp(404, Html("Page not found ):"))

C22_Witness ==
  /\ Over("http01", "POST")
  /\ req.path = <<Seg("about")>> /\ ~HasQuery(req)
  /\ sent = <<Resp(200, Html("We are an awesome app, check us out !!"))>>

\* a limit that is the text of a positive number with a fractional part
NonIntegerLimit(limit) ==
  /\ limit.t = "str"
  /\ ~isNaN(Number(limit))
  /\ Number(limit).v > 0 /\ Number(limit).v % Scale # 0

\* C23 (as claimed): in the explained server a limit that is a positive
\* number but not an integer (5.5) is treated as invalid and ignored: the
\* response is the one of the same request without limit. Stated for
\* requests whose search is absent or a single text.
C23_NonIntegerLimitIgnored ==
  (/\ QueryRequest("paramsExplained")
   /\ req.query.search.t # "arr"
   /\ NonIntegerLimit(req.query.limit))
    => sent = queryExplained(products, [req.query EXCEPT !.limit = Undef]).sends

\* C24 (as claimed): in the explained server a request with limit=0 is
\* answered with the empty-result response (200, data: [], "No products
\* matched your search criteria") even when search leaves products. Stated
\* for requests whose search is absent or a single text.
C24_ZeroLimitIsEmpty ==
  (/\ QueryRequest("paramsExplained")
   /\ req.query.search.t # "arr"
   /\ req.query.limit = Str(<<"0">>))
    => sent = <<Resp(200, [t |-> "noMatch", success |-> TRUE,
                           message |-> "No products matched your search criteria",
                           data |-> <<>>])>>

\* C26: POST /api/people/postman with a name is answered 201 with the people
\* list followed by one new record { name, id: people.length + 1 }; when the
\* ids of people are exactly 1..n, every id of the returned list is a positive
\* integer that occurs once; and every create, a second one after a first
\* included, returns a list of length n + 1, n the length of the list loaded
\* at start.
C26_CreateAppends ==
  (/\ Over("peopleApp", "POST")
   /\ req.path = <<Seg("api"), Seg("people"), Seg("postman")>>
   /\ HasName(req.body))
    => /\ Len(sent) = 1 /\ sent[1].status = 201
       /\ sent[1].body =
            [t |-> "data", success |-> TRUE,
             data |-> people \o <<[name |-> req.body.name.s,
                                   id |-> Len(people) + 1]>>]
       /\ people \in PeopleLists
       /\ Len(sent[1].body.data) = Len(people) + 1
       /\ (\A i \in 1..Len(people) : people[i].id = i)
            => LET data == sent[1].body.data
               IN  \A i \in 1..Len(data) :
                     /\ data[i].id \in Nat \ {0}
                     /\ \A j \in 1..Len(data) : data[j].id = data[i].id => j = i

C26_Witness ==
  /\ Over("peopleApp", "POST")
  /\ req.path = <<Seg("api"), Seg("people"), Seg("postman")>>
  /\ Len(people) = MaxPeople
  /\ Len(sent) = 1 /\ sent[1].status = 201
  /\ sent[1].body.data[MaxPeople + 1] = [name |-> <<"susan">>, id |-> MaxPeople + 1]

\* the elements of list at the positions of keep, in the order of list
SubseqAt(list, keep) ==
  [k \in 1..Cardinality(keep) |->
     list[CHOOSE i \in keep : Cardinality({j \in keep : j < i}) = k - 1]]

\* C27: a successful updatePerson returns a list of the length, order and
\* ids of people in which exactly the records whose id is Number(personId)
\* carry the new name and every other record is unchanged; a successful
\* deletePerson returns people, in order, without exactly those records.
C27_WriteResults ==
  /\ (PersonRequest("PUT") /\ Len(sent) = 1 /\ sent[1].status = 200)
       => LET data == sent[1].body.data
          IN  /\ Len(data) = Len(people)
              /\ \A i \in 1..Len(people) :
                   IF i \in Hits(PersonId)
                   THEN data[i] = [id |-> people[i].id, name |-> req.body.name.s]
                   ELSE data[i] = people[i]
  /\ (PersonRequest("DELETE") /\ Len(sent) = 1 /\ sent[1].status = 200)
       => sent[1].body.data =
            SubseqAt(people, (1..Len(people)) \ Hits(PersonId))

C27_Witness ==
  /\ PersonRequest("PUT")
  /\ PersonId = <<"2">>
  /\ Len(people) = MaxPeople
  /\ Len(sent) = 1 /\ sent[1].status = 200
  /\ sent[1].body.data[1] = people[1]
  /\ sent[1].body.data[2] = [id |-> 2, name |-> <<"susan">>]

\* C28: in updatePerson the missing-field check comes before the existence
\* check: a PUT without a name is answered 400 whether or not a person has
\* the id, and 404 is the answer exactly when a name is present and no person
\* has the id.
C28_MissingNameBeforeExistence ==
  PersonRequest("PUT")
    => /\ Len(sent) = 1
       /\ ~HasName(req.body) => sent[1].status = 400
       /\ sent[1].status = 404 <=> (HasName(req.body) /\ Hits(PersonId) = {})

C28_Witness ==
  /\ PersonRequest("PUT")
  /\ ~HasName(req.body)
  /\ Hits(PersonId) = {}
  /\ Len(sent) = 1 /\ sent[1].status = 400

\* C25: every request to a middleware server gets a response in the end,
\* and exactly one: from the moment the request is received its chain comes
\* to its end with one response sent, and at no time has a request more
\* than one response.
C25_EventuallyOneResponse ==
  /\ [](server \in MwServers => Len(sent) <= 1)
  /\ (server \in MwServers /\ phase \in {"run", "final"})
       ~> (server \in MwServers /\ phase = "done" /\ Len(sent) = 1)

C25_Witness ==
  /\ Over("mwBasic", "GET")
  /\ req.path = <<Seg("nowhere")>>
  /\ req.query.user = Str(<<"john">>)
  /\ ran = <<[h |-> "logger", sends |-> 0, nexts |-> 1],
             [h |-> "authorize", sends |-> 0, nexts |-> 1]>>
  /\ sent = <<Resp(404, Html("Cannot reach the path"))>>

\* C29: with several requests in hand and their layers run in any order, a
\* route handler finds in req.user the user of its own request only, and a
\* request without a user parameter never reaches a route handler and is
\* answered 401, whatever other requests were authorized before it or
\* meanwhile.
C29_UserPerRequest ==
  \A i \in Slots :
    inflight[i].phase # "free"
      => LET x == inflight[i]
         IN  /\ \A k \in 1..Len(x.seen) :
                  x.seen[k] = [name |-> x.req.query.user, id |-> 3]
             /\ x.user \in {Undef, [name |-> x.req.query.user, id |-> 3]}
             /\ x.req.query.user = Undef
                  => /\ x.seen = <<>> /\ x.user = Undef
                     /\ x.phase = "done"
                          => (Len(x.sent) = 1 /\ x.sent[1].status = 401)

C29_Witness ==
  \E i \in Slots : \E j \in Slots \ {i} :
    /\ inflight[i].phase = "run"
    /\ inflight[i].user = [name |-> Str(<<"john">>), id |-> 3]
    /\ inflight[j].phase = "done"
    /\ inflight[j].seen = <<[name |-> Str(<<"jane">>), id |-> 3]>>

\* C30: for every pfWage >= 0 the employer's monthly EPS share is 8.33% of
\* min(pfWage, 15000), hence at most the share at a wage of 15000; the
\* employer's monthly EPF share is 12% of pfWage less the EPS share, so the
\* two shares add up to 12% of pfWage and every rupee of wage above 15000
\* adds its 12% to the EPF share. Amounts are in 1/10000 rupee.
C30_EmployerShares ==
  epf.stage = "result"
    => LET pfWage == epf.args.pfWage
           eps == epf.result.employerEPSMonthly
           epfShare == epf.result.employerEPFMonthly
       IN  /\ eps = 833 * (IF pfWage <= 15000 THEN pfWage ELSE 15000)
           /\ eps <= 833 * 15000
           /\ epfShare = 1200 * pfWage - eps
           /\ eps + epfShare = 1200 * pfWage
           /\ pfWage > 15000
                => epfShare = (1200 - 833) * 15000 + 1200 * (pfWage - 15000)

C30_Witness ==
  /\ epf.stage = "result"
  /\ epf.args.pfWage = 15001
  /\ epf.result.employerEPSMonthly = 12495000
  /\ epf.result.employerEPFMonthly = 5506200
  /\ epf.result.monthlyContribBreakdown.employerEPSMonthly = 1250
====
